---- MODULE Spec2Model ----
(***************************************************************************)
(* Model of digitalocean/baseapi.py: the Requester session object, its      *)
(* round-robin token property, _perform_request, get_data and               *)
(* _deal_with_pagination.  One HTTP exchange is split at the network call:  *)
(* the request is sent by the action that runs the code up to               *)
(* requests_method(url, **kwargs) and the response is consumed by the       *)
(* action that runs the code after it.                                      *)
(***************************************************************************)
EXTENDS Integers, Sequences, FiniteSets, TLC

VARIABLES
    tokens,      \* Requester.tokens: the configured token sequence
    last_used,   \* Requester._last_used: the round-robin cursor
    ratelimit,   \* ratelimit_limit / ratelimit_remaining / ratelimit_reset
    pc,          \* position of the caller: idle, first, walk, done
    type,        \* get_data's type argument (the HTTP verb)
    params,      \* the params mapping object get_data works on (the caller's)
    data,        \* the decoded body of the latest response
    all_data,    \* _deal_with_pagination's accumulator
    outcome,     \* what get_data returned or raised
    requests,    \* history: the HTTP requests issued by the current call
    pages,       \* history: the responses received by the current call
    reads,       \* history: values returned by the token property since the
                 \*          last assignment (first MaxReads of them)
    sent,        \* history: Authorization tokens of the requests issued since
                 \*          the last assignment (first MaxSent of them)
    lastOk,      \* history: rate-limit headers of the latest 2xx response
    end_point,   \* Requester.end_point, as a sequence of URL parts
    threads,     \* the threads reading the token property: where each is
                 \*          in the getter, and the locals it holds
    raced        \* history: a thread entered the getter while another was
                 \*          inside it

vars == <<tokens, last_used, ratelimit, pc, type, params, data, all_data,
          outcome, requests, pages, reads, sent, lastOk, end_point, threads,
          raced>>

----------------------------------------------------------------------------
(* Bounds of the model *)

\* number of pages the simulated endpoint serves for one listing, at most
MaxPages == 3
\* length of the recorded prefix of token-property reads
MaxReads == 6
\* length of the recorded prefix of Authorization tokens
MaxSent == 3

----------------------------------------------------------------------------
(* Verbs, baseapi.py lines 15-19 *)

GET == "GET"
POST == "POST"

\* a header that is not there (Python: None)
None == "None"

----------------------------------------------------------------------------
(* JSON values: a field of a decoded body is absent, a list or a non-list *)

Absent == [kind |-> "absent", v |-> <<>>]
List(s) == [kind |-> "list", v |-> s]
Scalar(x) == [kind |-> "scalar", v |-> <<x>>]

Keys == {"droplets", "links", "id", "message"}

EmptyMap == [k \in Keys |-> Absent]

\* the "links" field: {"pages": {"next": path?query}}, the URL kept as its two
\* parts around the first "?", the query as its name=value pairs; NoNext is a
\* "links" object with no next page
Url(path, query) == [kind |-> "scalar", v |-> <<path, query>>]
NoNext == [kind |-> "scalar", v |-> <<>>]

\* data.get("links", {}).get("pages", {}).get("next"): the next-page URL,
\* <<>> when there is none (a missing key, None and "" are all falsy)
NextLink(d) == IF d["links"].kind = "scalar" THEN d["links"].v ELSE <<>>

----------------------------------------------------------------------------
(* Request parameters: a mapping over ParamKeys, Absent for a missing key *)

ParamKeys == {"page", "per_page", "tag"}
NoParams == [k \in ParamKeys |-> Absent]

\* url, query = link.split("?", 1)
LinkPath(link) == link[1]
LinkQueryString(link) == link[2]

\* the values a query string gives for name k, in their order
RECURSIVE QueryValues(_, _)
QueryValues(query, k) ==
    IF query = <<>> THEN <<>>
    ELSE (IF Head(query)[1] = k THEN <<Head(query)[2]>> ELSE <<>>)
         \o QueryValues(Tail(query), k)

\* a faulty variant: the query of the link is dropped
ParseQsNothing(query) == NoParams

\* urlparse.parse_qs(query): every name of the query maps to the list of its
\* values
ParseQs(query) ==
    [k \in ParamKeys |->
        IF QueryValues(query, k) = <<>> THEN Absent
        ELSE List(QueryValues(query, k))]

\* a faulty variant: a parameter already in params keeps its value
MergeQueryKeepOld(p, q) == [k \in ParamKeys |-> IF p[k] # Absent THEN p[k] ELSE q[k]]

\* for key, value in parse_qs(query).items(): params[key] = value
MergeQuery(p, q) == [k \in ParamKeys |-> IF q[k] # Absent THEN q[k] ELSE p[k]]

\* a faulty variant: the default is set whatever the verb
SetDefaultPerPageAnyVerb(ty, p) ==
    IF p["per_page"] = Absent THEN [p EXCEPT !["per_page"] = Scalar("200")] ELSE p

\* params.setdefault("per_page", 200), done for GET only
SetDefaultPerPage(ty, p) ==
    IF ty = GET /\ p["per_page"] = Absent
    THEN [p EXCEPT !["per_page"] = Scalar("200")]
    ELSE p

\* the lookup table's payload column: query string for GET, JSON body otherwise
Payload(ty) == IF ty = GET THEN "params" ELSE "data"

----------------------------------------------------------------------------
(* The token property *)

\* the setter: a list is taken as it is, a single token is wrapped
TokenSetter(t) == IF t.isList THEN t.v ELSE <<t.v[1]>>

\* a faulty variant: the cursor is not advanced
NextIndexNoAdvance(lu, n) == lu % n

\* (self._last_used + 1) % len(self.tokens)
NextIndex(lu, n) == (lu + 1) % n

\* the getter: the token returned and the cursor it leaves
TokenGet(toks, lu) ==
    IF toks # <<>>
    THEN [tok |-> toks[NextIndex(lu, Len(toks)) + 1],
          lu |-> NextIndex(lu, Len(toks))]
    ELSE [tok |-> "", lu |-> lu]

\* a history keeps its first max entries
Record(h, xs, max) == SubSeq(h \o xs, 1, IF Len(h \o xs) < max THEN Len(h \o xs) ELSE max)

----------------------------------------------------------------------------
(* _perform_request up to the network call *)

\* the characters of a token
Chars(tok) ==
    CASE tok = "" -> <<>>
      [] tok = "tok-a" -> <<"t", "o", "k", "-", "a">>
      [] tok = "tok-b" -> <<"t", "o", "k", "-", "b">>
      [] tok = "tok-c" -> <<"t", "o", "k", "-", "c">>
      [] tok = "TOKEN1" -> <<"T", "O", "K", "E", "N", "1">>

\* str.strip()
RECURSIVE Strip(_)
Strip(cs) ==
    IF cs = <<>> THEN cs
    ELSE IF Head(cs) = " " THEN Strip(Tail(cs))
    ELSE IF cs[Len(cs)] = " " THEN Strip(SubSeq(cs, 1, Len(cs) - 1))
    ELSE cs

\* str.replace with an empty pattern: the replacement goes before every
\* character and after the last
RECURSIVE ReplaceEmpty(_, _)
ReplaceEmpty(cs, new) ==
    IF cs = <<>> THEN new
    ELSE new \o <<Head(cs)>> \o ReplaceEmpty(Tail(cs), new)

\* str.replace(old, new): the occurrences of old, taken from the left and
\* not overlapping
RECURSIVE Replace(_, _, _)
Replace(cs, old, new) ==
    IF old = <<>> THEN ReplaceEmpty(cs, new)
    ELSE IF Len(cs) < Len(old) THEN cs
    ELSE IF SubSeq(cs, 1, Len(old)) = old
         THEN new \o Replace(SubSeq(cs, Len(old) + 1, Len(cs)), old, new)
    ELSE <<Head(cs)>> \o Replace(Tail(cs), old, new)

\* 'TOKEN%s' % i, i counted from 0
Placeholder(i) ==
    <<"T", "O", "K", "E", "N">> \o
    <<CASE i = 0 -> "0" [] i = 1 -> "1" [] i = 2 -> "2" [] OTHER -> "9">>

\* the text of the Authorization header in str(headers)
HeadersStr(tok) == <<"B", "e", "a", "r", "e", "r", " ">> \o Chars(tok)

\* for i, token in enumerate(self.tokens):
\*     headers_str = headers_str.replace(token.strip(), 'TOKEN%s' % i)
\* from the i-th token (counted from 1) on
RECURSIVE MaskTokens(_, _, _)
MaskTokens(toks, i, cs) ==
    IF i > Len(toks) THEN cs
    ELSE MaskTokens(toks, i + 1, Replace(cs, Strip(Chars(toks[i])), Placeholder(i - 1)))

\* headers_str as it is logged for a request carrying tok
DebugLog(toks, tok) == MaskTokens(toks, 1, HeadersStr(tok))

NoRequest ==
    [type |-> "", url |-> "", payload |-> "", token |-> "", params |-> NoParams,
     log |-> <<>>]

\* a faulty variant: the token is not checked before the request is built
PerformRequestUnchecked(toks, lu, ty, url, p) ==
    [raised |-> FALSE, lu |-> TokenGet(toks, lu).lu,
     read |-> <<TokenGet(toks, lu).tok>>,
     req |-> [type |-> ty, url |-> url, payload |-> Payload(ty),
              token |-> TokenGet(toks, lu).tok, params |-> p,
              log |-> DebugLog(toks, TokenGet(toks, lu).tok)]]

\* `if not self.token` reads the property once, the Authorization header
\* reads it again
PerformRequest(toks, lu, ty, url, p) ==
    LET chk == TokenGet(toks, lu)
        hdr == TokenGet(toks, chk.lu)
    IN IF chk.tok = ""
       THEN [raised |-> TRUE, lu |-> chk.lu, read |-> <<chk.tok>>, req |-> NoRequest]
       ELSE [raised |-> FALSE, lu |-> hdr.lu, read |-> <<chk.tok, hdr.tok>>,
             req |-> [type |-> ty, url |-> url, payload |-> Payload(ty),
                      token |-> hdr.tok, params |-> p,
                      log |-> DebugLog(toks, hdr.tok)]]

----------------------------------------------------------------------------
(* Outcomes of get_data *)

NoOutcome == [kind |-> "none", err |-> "", msg |-> "", value |-> EmptyMap]
ReturnTrue == [kind |-> "true", err |-> "", msg |-> "", value |-> EmptyMap]
ReturnData(d) == [kind |-> "data", err |-> "", msg |-> "", value |-> d]
Raise(e, m) == [kind |-> "raise", err |-> e, msg |-> m, value |-> EmptyMap]

\* [data[m] for m in ("id", "message") if m in data][1]
ErrorMessage(d) ==
    LET present == SelectSeq(<<"id", "message">>, LAMBDA m : d[m].kind # "absent")
    IN IF Len(present) >= 2 THEN Raise("DataReadError", d[present[2]].v[1])
       ELSE Raise("IndexError", "list index out of range")

\* requests' Response.ok
Ok(status) == status < 400

\* a faulty variant: the body is decoded before the status is looked at
ClassifyDecodeFirst(resp) ==
    IF ~resp.decodable
    THEN Raise("JSONReadError", "Read failed from DigitalOcean")
    ELSE IF resp.status = 204 THEN ReturnTrue
    ELSE IF resp.status = 404 THEN Raise("NotFoundError", "")
    ELSE IF ~Ok(resp.status) THEN ErrorMessage(resp.body)
    ELSE NoOutcome

\* a faulty variant: no test for 204
ClassifyNo204(resp) ==
    IF resp.status = 404 THEN Raise("NotFoundError", "")
    ELSE IF ~resp.decodable
         THEN Raise("JSONReadError", "Read failed from DigitalOcean")
    ELSE IF ~Ok(resp.status) THEN ErrorMessage(resp.body)
    ELSE NoOutcome

\* get_data's checks of the first response, in the code's order; NoOutcome
\* when none of them ends the call
Classify(resp) ==
    IF resp.status = 204 THEN ReturnTrue
    ELSE IF resp.status = 404 THEN Raise("NotFoundError", "")
    ELSE IF ~resp.decodable
         THEN Raise("JSONReadError", "Read failed from DigitalOcean")
    ELSE IF ~Ok(resp.status) THEN ErrorMessage(resp.body)
    ELSE NoOutcome

\* a faulty variant: the caller's page parameter is not looked at
ShouldPaginateAnyway(d, p) == NextLink(d) # <<>>

\* pages.get("next") and "page" not in params
ShouldPaginate(d, p) == NextLink(d) # <<>> /\ p["page"] = Absent

----------------------------------------------------------------------------
(* Rate limit *)

Unset == [limit |-> "unset", remaining |-> "unset", reset |-> "unset"]

\* __init_ratelimit: headers.get(name, None) for each of the three headers
InitRatelimit(h) == [limit |-> h.limit, remaining |-> h.remaining, reset |-> h.reset]

----------------------------------------------------------------------------
(* Merging a page into the accumulator *)

\* all_data[key] += value on a non-list raises TypeError
MergeRaises(ad, d) ==
    \E k \in Keys : d[k].kind = "list" /\ ad[k].kind = "scalar"

\* a faulty variant: a list is assigned like any other value
MergeFieldOverwrite(old, new) == IF new.kind = "absent" THEN old ELSE new

\* one key of `for key, value in data.items()`
MergeField(old, new) ==
    IF new.kind = "absent" THEN old
    ELSE IF new.kind = "list" /\ old.kind # "absent" THEN List(old.v \o new.v)
    ELSE new

Merge(ad, d) == [k \in Keys |-> MergeField(ad[k], d[k])]

----------------------------------------------------------------------------
(* What the remote service may answer *)

\* the decimal numeral of a page number
PageName(n) == <<"1", "2", "3", "4", "5", "6", "7", "8", "9">>[n]

\* the link page n of a listing gives to page n + 1
NextUrl(n) == Url("droplets", << <<"page", PageName(n + 1)>>, <<"per_page", "200">> >>)

\* the "droplets" field of the n-th response of a call: missing, the page's
\* one droplet, or not a list
DropletVals(n) == {Absent, List(<<PageName(n)>>), Scalar("none")}

\* the "links" field of the n-th response of a call
LinkVals(n) == {Absent, NoNext, NextUrl(n)}

DataBodies(n) ==
    {[EmptyMap EXCEPT !["droplets"] = d, !["links"] = l] :
        d \in DropletVals(n), l \in LinkVals(n)}

ErrorBodies ==
    {[EmptyMap EXCEPT !["id"] = Scalar("server_error")],
     [EmptyMap EXCEPT !["message"] = Scalar("Server Error")],
     [EmptyMap EXCEPT !["id"] = Scalar("server_error"), !["message"] = Scalar("Server Error")]}

Bodies(n) == DataBodies(n) \cup ErrorBodies

\* the Ratelimit-Limit, Ratelimit-Remaining and Ratelimit-Reset headers
Headers ==
    {[limit |-> "5000", remaining |-> "4999", reset |-> "1700000000"],
     [limit |-> None, remaining |-> None, reset |-> None]}

Statuses == {200, 404, 500}

\* a 204 carries no body; any other status comes with a JSON mapping or with
\* a body that json() cannot decode
ResponsesOver(B, H) ==
    {[status |-> 204, decodable |-> FALSE, body |-> EmptyMap, hdr |-> h] : h \in H}
    \cup {[status |-> st, decodable |-> TRUE, body |-> b, hdr |-> h] :
            st \in Statuses, b \in B, h \in H}
    \cup {[status |-> st, decodable |-> FALSE, body |-> EmptyMap, hdr |-> h] :
            st \in Statuses, h \in H}

\* what may answer the n-th request of a call
Responses(n) == ResponsesOver(Bodies(n), Headers)

\* a 2xx response whose body, if it has one, decodes
Successful(resp) == resp.status = 204 \/ (resp.status = 200 /\ resp.decodable)

\* the listing is finite: its MaxPages-th page carries no next-page link
ServerOffers(resp) == Len(pages) + 1 < MaxPages \/ NextLink(resp.body) = <<>>

----------------------------------------------------------------------------
(* What the caller may pass *)

Verbs == {GET, POST}

ParamChoices ==
    {[NoParams EXCEPT !["tag"] = Scalar("web")],
     [NoParams EXCEPT !["page"] = Scalar("1"), !["per_page"] = Scalar("50")]}

Single(t) == [isList |-> FALSE, v |-> <<t>>]
Several(ts) == [isList |-> TRUE, v |-> ts]

----------------------------------------------------------------------------
(* State after construction: __init__ assigns the token through the setter *)

\* the class attribute end_point: "https://api.digitalocean.com/v2/"
DefaultEndPoint == <<"https", ":", "//", "api.digitalocean.com", "/v2/">>

\* urlparse.urlparse(ep): the scheme is what stands before ":", the netloc
\* the part that follows "//", the path is the rest
Urlparse(ep) ==
    LET hasScheme == Len(ep) >= 2 /\ ep[2] = ":"
        rest == IF hasScheme THEN SubSeq(ep, 3, Len(ep)) ELSE ep
        hasSlashes == rest # <<>> /\ rest[1] = "//"
        hasNetloc == hasSlashes /\ Len(rest) >= 2
    IN [scheme |-> IF hasScheme THEN ep[1] ELSE "",
        netloc |-> IF hasNetloc THEN rest[2] ELSE "",
        path |-> IF hasNetloc THEN SubSeq(rest, 3, Len(rest))
                 ELSE IF hasSlashes THEN Tail(rest)
                 ELSE rest]

\* a faulty variant: only the scheme is looked at
EndPointRejectedNoScheme(ep) == Urlparse(ep).scheme = ""

\* if not parsed_url.scheme or not parsed_url.netloc
EndPointRejected(ep) == Urlparse(ep).scheme = "" \/ Urlparse(ep).netloc = ""

\* if not parsed_url.path: self.end_point += '/'
WithPath(ep) == IF Urlparse(ep).path = <<>> THEN Append(ep, "/") ELSE ep

\* end_point or os.getenv("DIGITALOCEAN_END_POINT", default), the variable
\* not being set
EndPointArg(ep) == IF ep = <<>> THEN DefaultEndPoint ELSE ep

\* token or os.getenv("DIGITALOCEAN_ACCESS_TOKEN", ""), the variable not
\* being set
TokenArg(t) == IF t.v = <<>> \/ t.v = <<"">> THEN Single("") ELSE t

\* the threads that share the session
Threads == {"t1", "t2"}
Other(t) == CHOOSE u \in Threads : u # t
NoThreads == [t \in Threads |-> [pc |-> "ready", tmp |-> 0, got |-> ""]]

InitOver(T) ==
    /\ \E t \in T : tokens = TokenSetter(t)
    /\ last_used = 0
    /\ ratelimit = Unset
    /\ pc = "idle"
    /\ type = ""
    /\ params = NoParams
    /\ data = EmptyMap
    /\ all_data = EmptyMap
    /\ outcome = NoOutcome
    /\ requests = <<>>
    /\ pages = <<>>
    /\ reads = <<>>
    /\ sent = <<>>
    /\ lastOk = Unset
    /\ end_point = DefaultEndPoint
    /\ threads = NoThreads
    /\ raced = FALSE

----------------------------------------------------------------------------
(* Token property, from outside a request *)

\* a faulty variant: the assignment leaves the cursor alone
SetTokenKeepCursor(t) ==
    /\ UNCHANGED <<end_point, threads, raced>>
    /\ pc = "idle"
    /\ tokens' = TokenSetter(t)
    /\ reads' = <<>>
    /\ sent' = <<>>
    /\ UNCHANGED <<last_used, ratelimit, pc, type, params, data, all_data, outcome,
                   requests, pages, lastOk>>

\* requester.token = t
SetToken(t) ==
    /\ UNCHANGED <<end_point, threads, raced>>
    /\ pc = "idle"
    /\ last_used' = 0
    /\ tokens' = TokenSetter(t)
    /\ reads' = <<>>
    /\ sent' = <<>>
    /\ UNCHANGED <<ratelimit, pc, type, params, data, all_data, outcome,
                   requests, pages, lastOk>>

\* requester.token
ReadToken ==
    /\ UNCHANGED <<end_point, threads, raced>>
    /\ pc = "idle"
    /\ last_used' = TokenGet(tokens, last_used).lu
    /\ reads' = Record(reads, <<TokenGet(tokens, last_used).tok>>, MaxReads)
    /\ UNCHANGED <<tokens, ratelimit, pc, type, params, data, all_data, outcome,
                   requests, pages, sent, lastOk>>

----------------------------------------------------------------------------
(* get_data *)

\* get_data ends: it returns or raises o
Finish(o) ==
    /\ outcome' = o
    /\ pc' = "done"

\* get_data from its entry to the first network call
GetData(ty, p) ==
    /\ UNCHANGED <<end_point, threads, raced>>
    /\ pc = "idle"
    /\ LET p1 == SetDefaultPerPage(ty, p)
           r == PerformRequest(tokens, last_used, ty, "droplets", p1)
       IN /\ type' = ty
          /\ params' = p1
          /\ last_used' = r.lu
          /\ reads' = Record(reads, r.read, MaxReads)
          /\ IF r.raised
             THEN /\ Finish(Raise("TokenError", "No token provided. Please use a valid token"))
                  /\ UNCHANGED <<requests, sent>>
             ELSE /\ requests' = <<r.req>>
                  /\ sent' = Record(sent, <<r.req.token>>, MaxSent)
                  /\ pc' = "first"
                  /\ outcome' = outcome
    /\ UNCHANGED <<tokens, ratelimit, data, all_data, pages, lastOk>>

\* _deal_with_pagination from its while test, with `data` being d and
\* `all_data` being ad: either the next page is requested or all_data returned
Loop(d, ad) ==
    /\ data' = d
    /\ all_data' = ad
    /\ IF NextLink(d) # <<>>
       THEN LET link == NextLink(d)
                p == MergeQuery(params, ParseQs(LinkQueryString(link)))
                r == PerformRequest(tokens, last_used, type, LinkPath(link), p)
            IN /\ params' = p
               /\ last_used' = r.lu
               /\ reads' = Record(reads, r.read, MaxReads)
               /\ IF r.raised
                  THEN /\ Finish(Raise("TokenError", "No token provided. Please use a valid token"))
                       /\ UNCHANGED <<requests, sent>>
                  ELSE /\ requests' = Append(requests, r.req)
                       /\ sent' = Record(sent, <<r.req.token>>, MaxSent)
                       /\ pc' = "walk"
                       /\ outcome' = outcome
       ELSE /\ Finish(ReturnData(ad))
            /\ UNCHANGED <<params, last_used, reads, sent, requests>>

\* get_data after the first network call
FirstResponse(resp) ==
    /\ UNCHANGED <<end_point, threads, raced>>
    /\ pc = "first"
    /\ ServerOffers(resp)
    /\ pages' = Append(pages, resp)
    /\ lastOk' = IF Successful(resp) THEN resp.hdr ELSE lastOk
    /\ UNCHANGED <<tokens, type>>
    /\ IF Classify(resp) # NoOutcome
       THEN /\ Finish(Classify(resp))
            /\ UNCHANGED <<ratelimit, params, last_used, reads, sent, requests,
                           data, all_data>>
       ELSE /\ ratelimit' = InitRatelimit(resp.hdr)
            /\ IF ShouldPaginate(resp.body, params)
               THEN Loop(resp.body, resp.body)
               ELSE /\ Finish(ReturnData(resp.body))
                    /\ data' = resp.body
                    /\ UNCHANGED <<params, last_used, reads, sent, requests, all_data>>

\* _deal_with_pagination after the network call for a following page
PageResponse(resp) ==
    /\ UNCHANGED <<end_point, threads, raced>>
    /\ pc = "walk"
    /\ ServerOffers(resp)
    /\ pages' = Append(pages, resp)
    /\ lastOk' = IF Successful(resp) THEN resp.hdr ELSE lastOk
    /\ UNCHANGED <<tokens, type, ratelimit>>
    /\ IF ~resp.decodable
       THEN /\ Finish(Raise("ValueError", "Expecting value"))
            /\ UNCHANGED <<params, last_used, reads, sent, requests, data, all_data>>
       ELSE IF MergeRaises(all_data, resp.body)
       THEN /\ Finish(Raise("TypeError", "unsupported operand"))
            /\ data' = resp.body
            /\ UNCHANGED <<params, last_used, reads, sent, requests, all_data>>
       ELSE Loop(resp.body, Merge(all_data, resp.body))

\* the caller takes what get_data returned or raised; the call's locals go
Return ==
    /\ UNCHANGED <<end_point, threads, raced>>
    /\ pc = "done"
    /\ pc' = "idle"
    /\ type' = ""
    /\ data' = EmptyMap
    /\ all_data' = EmptyMap
    /\ outcome' = NoOutcome
    /\ requests' = <<>>
    /\ pages' = <<>>
    /\ UNCHANGED <<tokens, last_used, ratelimit, params, reads, sent, lastOk>>

----------------------------------------------------------------------------
(* Construction *)

\* Requester(token=t, end_point=ep)
Construct(t, ep) ==
    /\ pc = "new"
    /\ tokens' = TokenSetter(TokenArg(t))
    /\ last_used' = 0
    /\ IF EndPointRejected(EndPointArg(ep))
       THEN /\ end_point' = EndPointArg(ep)
            /\ outcome' = Raise("EndPointError",
                               "Provided end point is not a valid URL. Please use a valid URL")
            /\ pc' = "failed"
       ELSE /\ end_point' = WithPath(EndPointArg(ep))
            /\ pc' = "idle"
            /\ outcome' = outcome
    /\ UNCHANGED <<ratelimit, type, params, data, all_data, requests, pages, reads,
                   sent, lastOk, threads, raced>>

----------------------------------------------------------------------------
(* The token property read by two threads: the getter in the steps between
   which another thread may run *)

\* `if self.tokens:` and the read of self._last_used
ThreadLoad(t) ==
    /\ pc = "idle"
    /\ threads[t].pc = "ready"
    /\ Len(reads) < MaxReads
    /\ raced' = (raced \/ threads[Other(t)].pc \in {"loaded", "stored"})
    /\ IF tokens = <<>>
       THEN /\ threads' = [threads EXCEPT ![t] = [pc |-> "got", tmp |-> 0, got |-> ""]]
            /\ reads' = Record(reads, <<"">>, MaxReads)
       ELSE /\ threads' = [threads EXCEPT ![t] = [pc |-> "loaded", tmp |-> last_used,
                                                  got |-> ""]]
            /\ reads' = reads
    /\ UNCHANGED <<tokens, last_used, ratelimit, pc, type, params, data, all_data,
                   outcome, requests, pages, sent, lastOk, end_point>>

\* self._last_used = (... + 1) % len(self.tokens)
ThreadStore(t) ==
    /\ threads[t].pc = "loaded"
    /\ last_used' = NextIndex(threads[t].tmp, Len(tokens))
    /\ threads' = [threads EXCEPT ![t].pc = "stored", ![t].tmp = 0]
    /\ UNCHANGED <<tokens, ratelimit, pc, type, params, data, all_data, outcome,
                   requests, pages, reads, sent, lastOk, end_point, raced>>

\* a faulty variant: the first token whatever the cursor
ThreadIndexFirst(t) ==
    /\ threads[t].pc = "stored"
    /\ threads' = [threads EXCEPT ![t].pc = "got", ![t].got = tokens[1]]
    /\ reads' = Record(reads, <<tokens[1]>>, MaxReads)
    /\ UNCHANGED <<tokens, last_used, ratelimit, pc, type, params, data, all_data,
                   outcome, requests, pages, sent, lastOk, end_point, raced>>

\* return self.tokens[self._last_used]
ThreadIndex(t) ==
    /\ threads[t].pc = "stored"
    /\ threads' = [threads EXCEPT ![t].pc = "got", ![t].got = tokens[last_used + 1]]
    /\ reads' = Record(reads, <<tokens[last_used + 1]>>, MaxReads)
    /\ UNCHANGED <<tokens, last_used, ratelimit, pc, type, params, data, all_data,
                   outcome, requests, pages, sent, lastOk, end_point, raced>>

\* the thread has its token and may read again
ThreadDone(t) ==
    /\ threads[t].pc = "got"
    /\ threads' = [threads EXCEPT ![t].pc = "ready", ![t].got = ""]
    /\ UNCHANGED <<tokens, last_used, ratelimit, pc, type, params, data, all_data,
                   outcome, requests, pages, reads, sent, lastOk, end_point, raced>>

----------------------------------------------------------------------------
(* Specifications *)

Init == InitOver({Several(<<"tok-a", "tok-b">>)})

Next ==
    \/ \E ty \in Verbs, p \in ParamChoices \cup {params} : GetData(ty, p)
    \/ \E resp \in Responses(1) : FirstResponse(resp)
    \/ \E resp \in Responses(Len(pages) + 1) : PageResponse(resp)
    \/ Return

Spec == Init /\ [][Next]_vars

\* the session under every kind of token configuration, the service
\* answering from a small set
TokenInputs ==
    {Single(""), Single("tok-a"), Several(<<>>), Several(<<"tok-a", "tok-b">>),
     Several(<<"tok-a", "tok-b", "tok-c">>), Several(<<"tok-a", "">>),
     Several(<<"TOKEN1", "tok-b">>)}

TokenResponses(n) ==
    {r \in Responses(n) :
        /\ r.hdr.limit # None
        /\ \/ r.status = 204
           \/ r.status = 404 /\ ~r.decodable
           \/ /\ r.status = 200
              /\ r.decodable
              /\ r.body["droplets"].kind = "list"
              /\ r.body["links"].kind = "scalar"}

\* the constructor takes a token, or a non-empty list of them
InitTokens == InitOver({t \in TokenInputs : t.v # <<>>})

NextTokens ==
    \/ \E t \in TokenInputs : SetToken(t)
    \/ ReadToken
    \/ \E ty \in Verbs, p \in ParamChoices : GetData(ty, p)
    \/ \E resp \in TokenResponses(1) : FirstResponse(resp)
    \/ \E resp \in TokenResponses(Len(pages) + 1) : PageResponse(resp)
    \/ Return

SpecTokens == InitTokens /\ [][NextTokens]_vars

\* the end points given to the constructor: none, two well-formed ones (with
\* and without a path), a bare host name, one without a scheme, two
\* without a host
EndPoints ==
    {<<>>,
     <<"https", ":", "//", "example.com", "/v2/">>,
     <<"https", ":", "//", "example.com">>,
     <<"example.com">>,
     <<"//", "example.com", "/v2/">>,
     <<"https", ":", "/v2/">>,
     <<"https", ":", "//">>}

\* the class attributes, before __init__ has run
InitNew ==
    /\ tokens = <<>>
    /\ last_used = 0
    /\ ratelimit = Unset
    /\ pc = "new"
    /\ type = ""
    /\ params = NoParams
    /\ data = EmptyMap
    /\ all_data = EmptyMap
    /\ outcome = NoOutcome
    /\ requests = <<>>
    /\ pages = <<>>
    /\ reads = <<>>
    /\ sent = <<>>
    /\ lastOk = Unset
    /\ end_point = DefaultEndPoint
    /\ threads = NoThreads
    /\ raced = FALSE

NextEndPoint ==
    \/ \E t \in {Single("tok-a"), Several(<<>>)}, ep \in EndPoints : Construct(t, ep)
    \/ \E ty \in Verbs, p \in ParamChoices : GetData(ty, p)
    \/ \E resp \in TokenResponses(1) : FirstResponse(resp)
    \/ \E resp \in TokenResponses(Len(pages) + 1) : PageResponse(resp)
    \/ Return

SpecEndPoint == InitNew /\ [][NextEndPoint]_vars

\* a session with its tokens assigned, shared by the threads
InitThreads == InitOver(TokenInputs)

NextThreads ==
    \E t \in Threads :
        \/ ThreadLoad(t)
        \/ ThreadStore(t)
        \/ ThreadIndex(t)
        \/ ThreadDone(t)

SpecThreads == InitThreads /\ [][NextThreads]_vars

----------------------------------------------------------------------------
(* Properties of the token property *)

Distinct(seq) == \A i, j \in 1..Len(seq) : i # j => seq[i] # seq[j]

\* C1, as stated: after a non-empty token sequence is assigned, the reads of
\* the token property return the tokens in the order they were given,
\* starting with the first one, and then repeat.
C1_InsertionOrder ==
    tokens # <<>> =>
        \A i \in 1..Len(reads) : reads[i] = tokens[((i - 1) % Len(tokens)) + 1]

\* C1, amended: after a non-empty token sequence of length k is assigned, the
\* i-th read of the token property returns the token at position i mod k
\* (counted from 0): the given order rotated left by one, so the first read
\* returns the second token and the k-th read the first; the pattern repeats
\* every k reads.
C1_RotatedOrder ==
    tokens # <<>> =>
        \A i \in 1..Len(reads) : reads[i] = tokens[(i % Len(tokens)) + 1]

\* three distinct tokens were assigned and read past one full cycle
C1_Witness ==
    /\ Len(tokens) = 3
    /\ Distinct(tokens)
    /\ Len(reads) >= 4
    /\ reads[4] = reads[1]

\* C2, as stated: with k >= 1 distinct configured tokens, any k consecutive
\* requests carry k different tokens in their Authorization header.
C2_EvenUse ==
    (tokens # <<>> /\ Distinct(tokens)) =>
        \A i \in 1..Len(sent) : \A j \in 1..Len(sent) :
            (i < j /\ j - i < Len(tokens)) => sent[i] # sent[j]

\* C10: with an empty token sequence (an empty list, or the one empty token
\* of a session given none), a get_data call ends at once with TokenError,
\* no request having been issued, and leaves the cursor where it was.
C10_TokenErrorBeforeRequest ==
    [][(pc = "idle" /\ pc' # "idle" /\ (tokens = <<>> \/ tokens = <<"">>)) =>
         /\ pc' = "done"
         /\ outcome' = Raise("TokenError", "No token provided. Please use a valid token")
         /\ requests' = <<>>
         /\ sent' = sent
         /\ last_used' = last_used]_vars

\* a call on a session whose token list is empty has ended
C10_Witness ==
    /\ pc = "done"
    /\ tokens = <<>>
    /\ outcome.err = "TokenError"
    /\ requests = <<>>

----------------------------------------------------------------------------
(* Properties of get_data *)

\* what the pages received by the call say about field k
RECURSIVE ConcatField(_, _)
ConcatField(ps, k) ==
    IF ps = <<>> THEN <<>>
    ELSE (IF Head(ps).body[k].kind = "list" THEN Head(ps).body[k].v ELSE <<>>)
         \o ConcatField(Tail(ps), k)

Carriers(k) == {i \in 1..Len(pages) : pages[i].body[k].kind # "absent"}
LastCarrier(k) == CHOOSE i \in Carriers(k) : \A j \in Carriers(k) : j <= i
ListField(k) == Carriers(k) # {} /\ \A i \in Carriers(k) : pages[i].body[k].kind = "list"
NonListField(k) == Carriers(k) # {} /\ \A i \in Carriers(k) : pages[i].body[k].kind = "scalar"

\* a GET call without page has ended after a listing of n successful pages,
\* all but the last with a next-page link, each field of one kind throughout
C3_Listing ==
    /\ pc = "done"
    /\ pages # <<>>
    /\ type = GET
    /\ requests[1].params["page"] = Absent
    /\ \A i \in 1..Len(pages) :
          /\ pages[i].status = 200
          /\ pages[i].decodable
          /\ (NextLink(pages[i].body) # <<>>) <=> (i < Len(pages))
    /\ \A k \in Keys : Carriers(k) = {} \/ ListField(k) \/ NonListField(k)

\* C3: for a listing served as n >= 1 successful pages and a GET call without
\* page, get_data returns one mapping in which every list-valued field is the
\* concatenation, in page order, of that field over all pages and every
\* non-list field has the value of the last page that carried it.
C3_MergedListing ==
    C3_Listing =>
        /\ outcome.kind = "data"
        /\ \A k \in Keys :
              /\ ListField(k) => outcome.value[k] = List(ConcatField(pages, k))
              /\ NonListField(k) => outcome.value[k] = pages[LastCarrier(k)].body[k]
              /\ Carriers(k) = {} => outcome.value[k] = Absent

\* three pages with one droplet each were merged
C3_Witness ==
    /\ C3_Listing
    /\ Len(pages) = 3
    /\ Carriers("droplets") = {1, 2, 3}
    /\ ListField("droplets")
    /\ outcome.value["droplets"] = List(<<"1", "2", "3">>)
    /\ outcome.value["links"] = NoNext

\* C4, as stated: when page 1 succeeds and a later page's response is a 404,
\* another non-2xx status or an undecodable body, get_data raises and returns
\* no mapping.
C4_MidWalkFailureAborts ==
    (/\ pc = "done"
     /\ Len(pages) >= 2
     /\ pages[1].status = 200
     /\ pages[1].decodable
     /\ \E i \in 2..Len(pages) :
           pages[i].status = 404 \/ ~Ok(pages[i].status) \/ ~pages[i].decodable)
    => outcome.kind = "raise"

\* C5, as stated: a first response that is not 2xx and not 404 and decodes to
\* a mapping makes get_data raise DataReadError, with the body's message
\* when it has one and with its id when it has no message.
C5_DataReadError ==
    (/\ pc = "done"
     /\ Len(pages) = 1
     /\ pages[1].status \notin 200..299
     /\ pages[1].status # 404
     /\ pages[1].decodable)
    => /\ outcome.kind = "raise"
       /\ outcome.err = "DataReadError"
       /\ pages[1].body["message"].kind = "scalar" =>
              outcome.msg = pages[1].body["message"].v[1]
       /\ (pages[1].body["message"].kind = "absent"
           /\ pages[1].body["id"].kind = "scalar") =>
              outcome.msg = pages[1].body["id"].v[1]

\* C6: a 404 first response ends the call with NotFoundError and no data,
\* whatever its body is and whatever link it carries; it stays the call's
\* only request.
C6_NotFound ==
    (pages # <<>> /\ pages[1].status = 404) =>
        /\ pc = "done"
        /\ outcome = Raise("NotFoundError", "")
        /\ Len(pages) = 1
        /\ Len(requests) = 1

\* a 404 whose body decodes and names a next page was answered
C6_Witness ==
    /\ pc = "done"
    /\ pages # <<>>
    /\ pages[1].status = 404
    /\ pages[1].decodable
    /\ NextLink(pages[1].body) # <<>>
    /\ outcome.err = "NotFoundError"

\* C7: a 204 first response ends the call with True: the body is not
\* decoded, the walk is not entered and the call has issued one request.
C7_NoContent ==
    (pages # <<>> /\ pages[1].status = 204) =>
        /\ pc = "done"
        /\ outcome = ReturnTrue
        /\ Len(pages) = 1
        /\ Len(requests) = 1

\* a 204, whose body does not decode, was answered with True
C7_Witness ==
    /\ pc = "done"
    /\ pages # <<>>
    /\ pages[1].status = 204
    /\ ~pages[1].decodable
    /\ outcome.kind = "true"

\* C8: a call whose params hold page issues one request and returns that
\* page's decoded mapping as it is, next-page link or not.
C8_ExplicitPage ==
    (requests # <<>> /\ requests[1].params["page"] # Absent) =>
        /\ Len(requests) = 1
        /\ pc # "walk"
        /\ (pc = "done" /\ pages[1].status = 200 /\ pages[1].decodable) =>
               outcome = ReturnData(pages[1].body)

\* a call with page = 1 got a page that names a next page, and returned it
C8_Witness ==
    /\ pc = "done"
    /\ requests # <<>>
    /\ requests[1].params["page"] = Scalar("1")
    /\ pages[1].status = 200
    /\ NextLink(pages[1].body) # <<>>
    /\ outcome = ReturnData(pages[1].body)

\* C9, as stated: between calls the rate-limit fields are the rate-limit
\* headers of the latest successful response the session received, a 204 and
\* the last page of a walk included.
C9_MostRecentHeaders ==
    pc \in {"idle", "done"} => ratelimit = lastOk

----------------------------------------------------------------------------
(* Further properties of the token property and of get_data *)

\* C11: the cursor is a valid index of the token sequence whenever that is
\* not empty, and it is zero from an assignment until the next read.
C11_CursorValid ==
    /\ tokens # <<>> => last_used \in 0..(Len(tokens) - 1)
    /\ reads = <<>> => last_used = 0

\* three tokens were read once each: the cursor has wrapped to zero
C11_Witness ==
    /\ Len(tokens) = 3
    /\ Len(reads) = 3
    /\ last_used = 0

\* C12: the first request of a GET call whose params have no per_page carries
\* per_page = 200; a per_page the caller set is sent as it is, a call with
\* another verb gets no per_page, and no other parameter is touched.
C12_PerPageDefault ==
    [][\A ty \in Verbs : \A p \in ParamChoices \cup {params} :
          (GetData(ty, p) /\ pc' = "first") =>
              /\ Len(requests') = 1
              /\ requests'[1].type = ty
              /\ requests'[1].params =
                     [k \in ParamKeys |->
                         IF k = "per_page" /\ ty = GET /\ p[k] = Absent
                         THEN Scalar("200") ELSE p[k]]]_vars

\* a GET call given only a tag has sent its first request
C12_Witness ==
    /\ pc = "first"
    /\ type = GET
    /\ requests[1].params["tag"] = Scalar("web")
    /\ requests[1].params["per_page"] = Scalar("200")

\* pat occurs in cs
Contains(cs, pat) ==
    \E i \in 1..(Len(cs) - Len(pat) + 1) : SubSeq(cs, i, i + Len(pat) - 1) = pat

\* C13, as stated: the text logged for a request contains none of the
\* configured (non-empty) tokens.
C13_NoTokenInLog ==
    \A i \in 1..Len(requests) : \A j \in 1..Len(tokens) :
        tokens[j] # "" => ~Contains(requests[i].log, Chars(tokens[j]))

\* C15, as stated: a following page is classified as the first response is:
\* a 404 raises NotFoundError, an undecodable body JSONReadError, another
\* non-2xx status DataReadError.
C15_LaterPagesClassified ==
    (pc = "done" /\ Len(pages) >= 2) =>
        LET last == pages[Len(pages)]
        IN /\ last.status = 404 => outcome.err = "NotFoundError"
           /\ (last.status \notin {204, 404} /\ ~last.decodable) =>
                  outcome.err = "JSONReadError"
           /\ (last.status # 404 /\ last.decodable /\ ~Ok(last.status)) =>
                  outcome.err = "DataReadError"

\* every page received so far is a decoded 200, the last one without a
\* next-page link
ListingServed ==
    /\ pages # <<>>
    /\ \A i \in 1..Len(pages) : pages[i].status = 200 /\ pages[i].decodable
    /\ NextLink(pages[Len(pages)].body) = <<>>

\* C16: the walk is sequential and ends: a request is issued only when every
\* earlier one has been answered, request i + 1 goes to the next link of page
\* i, no request is issued twice, and once the listing's last page has come
\* the call is over with as many requests as pages.
C16_SequentialWalk ==
    /\ Len(requests) = Len(pages) + (IF pc \in {"first", "walk"} THEN 1 ELSE 0)
    /\ \A i \in 2..Len(requests) :
          /\ NextLink(pages[i - 1].body) # <<>>
          /\ requests[i].url = LinkPath(NextLink(pages[i - 1].body))
          /\ requests[i].params["page"].v =
                 QueryValues(LinkQueryString(NextLink(pages[i - 1].body)), "page")
    /\ \A i, j \in 1..Len(requests) : i # j => requests[i] # requests[j]
    /\ ListingServed => (pc = "done" /\ Len(requests) = Len(pages))

\* a listing of three pages was walked with three requests
C16_Witness ==
    /\ pc = "done"
    /\ ListingServed
    /\ Len(pages) = 3
    /\ Len(requests) = 3
    /\ outcome.kind = "data"

\* C17: the request for a following page carries the params of the request
\* before it with the query of the next-page link merged in: a parameter the
\* link names has the link's value(s), any other parameter is as it was.
C17_MergedParams ==
    \A i \in 2..Len(requests) :
        LET query == LinkQueryString(NextLink(pages[i - 1].body))
        IN \A k \in ParamKeys :
              IF QueryValues(query, k) # <<>>
              THEN requests[i].params[k].v = QueryValues(query, k)
              ELSE requests[i].params[k] = requests[1].params[k]

\* the third request of a call given a tag: page 3 from the link, the tag kept
C17_Witness ==
    /\ Len(requests) = 3
    /\ requests[1].params["tag"] = Scalar("web")
    /\ requests[3].params["tag"] = Scalar("web")
    /\ requests[2].params["page"].v = <<"2">>
    /\ requests[3].params["page"].v = <<"3">>

\* C19, as stated: no request is issued with an empty bearer token.
C19_NoEmptyBearer ==
    \A i \in 1..Len(sent) : sent[i] # ""

\* C20, as stated: a call given a mapping without page leaves no page entry in
\* that mapping, so that a second call with it walks the listing again.
C20_NoPageLeftBehind ==
    (pc = "done" /\ requests # <<>> /\ requests[1].params["page"] = Absent) =>
        params["page"] = Absent

\* an end point with a scheme, "//" and a host after it
WellFormed(ep) ==
    /\ Len(ep) >= 4
    /\ ep[1] = "https"
    /\ ep[2] = ":"
    /\ ep[3] = "//"
    /\ ep[4] = "example.com" \/ ep[4] = "api.digitalocean.com"

\* C14: once the constructor has run, the session exists exactly when its end
\* point has a scheme and a host; otherwise EndPointError was raised and no
\* request has been or can be issued. An accepted end point has a path.
C14_EndPointChecked ==
    pc # "new" =>
        /\ ~WellFormed(end_point) =>
               /\ pc = "failed"
               /\ outcome.err = "EndPointError"
               /\ requests = <<>> /\ sent = <<>> /\ reads = <<>>
               /\ ~ENABLED NextEndPoint
        /\ WellFormed(end_point) => (pc # "failed" /\ Len(end_point) >= 5)

\* the constructor was given a bare host name
C14_Witness ==
    /\ pc = "failed"
    /\ end_point = <<"example.com">>
    /\ outcome.err = "EndPointError"

\* C18: reads of the token property that did not overlap return, one after
\* the other, different tokens of a sequence of two or more distinct tokens.
\* (That overlapping reads can return the same token is the witness.)
C18_SerializedReadsDiffer ==
    (~raced /\ Len(tokens) >= 2 /\ Distinct(tokens)) =>
        \A i \in 1..(Len(reads) - 1) : reads[i] # reads[i + 1]

\* two threads read at the same time and both got the same token of a
\* sequence of distinct tokens
C18_Witness ==
    /\ raced
    /\ Len(tokens) >= 2 /\ Distinct(tokens)
    /\ Len(reads) = 2
    /\ threads["t1"].pc = "got" /\ threads["t2"].pc = "got"
    /\ threads["t1"].got = threads["t2"].got

====
